---- MODULE Spec2Model ----
(***************************************************************************)
(* Model of pylgbst/hub.py: the Hub message-routing engine (send, _notify, *)
(* the built-in handlers), the attachment tracker, and the MoveHub variant *)
(* (its constructor and its named accessors).                              *)
(*                                                                         *)
(* Threads: the caller threads of send() (Callers) and the one             *)
(* notification-delivery thread of the Connection ("d"), which runs        *)
(* _notify for one notification at a time.  Every thread has a program     *)
(* counter; a step of the model is one statement (or one run of statements *)
(* that no other thread can observe) of the Python code.                   *)
(*                                                                         *)
(* Specifications: Spec (callers and the delivery thread on a Hub with the *)
(* built-in handlers), HandlerSpec (a client that sends and calls          *)
(* add_message_handler at any time), AttachSpec (device notifications on a *)
(* plain Hub), ConstructSpec (MoveHub.__init__) and MoveSpec (device       *)
(* notifications on a constructed MoveHub).                                *)
(***************************************************************************)
EXTENDS Integers, Sequences, FiniteSets, TLC

(* ----------------------------- bounds ---------------------------------- *)
\* total number of send() calls started
MaxSends == 2
\* total number of notifications handed to _notify
MaxNotifs == 2
\* number of Peripheral objects that may be constructed
MaxObjs == 2
\* number of add_message_handler calls of clients
MaxHandlers == 1
\* number of device notifications replayed on the attachment tracker
MaxAttachNotifs == 3
\* generic-errors that reach a MoveHub under construction while no request
\* is pending come among its first MaxEarlyErrors notifications
MaxEarlyErrors == 1

(* ------------------------ program constants ---------------------------- *)
HUB_HARDWARE_HANDLE == 14
PORT_A == 0
PORT_B == 1
PORT_C == 2
PORT_D == 3
PORT_AB == 16
PORT_LED == 50
PORT_TILT_SENSOR == 58
PORT_CURRENT == 59
PORT_VOLTAGE == 60
\* range(0, 60): the polls of MoveHub._wait_for_devices
WAIT_ATTEMPTS == 60
\* the actions Hub.switch_off and Hub.disconnect send
SWITCH_OFF == 1
DISCONNECT == 2
\* the properties and the alert MoveHub._report_status asks for
ADVERTISE_NAME == 1
PRIMARY_MAC == 13
VOLTAGE_PERC == 6
LOW_VOLTAGE == 1
\* queue.Queue(1): capacity of the rendezvous queue
SYNC_REPLIES_MAXSIZE == 1

Callers == {"c1", "c2"}
Delivery == "d"
Free == "free"

Ports == {PORT_A, PORT_B}
\* the ports MoveHub names; the keys Hub.peripherals may have
MovePorts == {PORT_A, PORT_B, PORT_C, PORT_D, PORT_AB, PORT_LED,
              PORT_TILT_SENSOR, PORT_CURRENT, PORT_VOLTAGE}
Props == {1, 2}

EVENT_DETACHED == "EVENT_DETACHED"
EVENT_ATTACHED == "EVENT_ATTACHED"
EVENT_ATTACHED_VIRTUAL == "EVENT_ATTACHED_VIRTUAL"
EVENT_OTHER == "EVENT_OTHER"
Events == {EVENT_DETACHED, EVENT_ATTACHED, EVENT_ATTACHED_VIRTUAL, EVENT_OTHER}

UPSTREAM_DISCONNECT == "UPSTREAM_DISCONNECT"
UPSTREAM_SHUTDOWN == "UPSTREAM_SHUTDOWN"
UPSTREAM_OTHER == "UPSTREAM_OTHER"
Actions == {UPSTREAM_DISCONNECT, UPSTREAM_SHUTDOWN, UPSTREAM_OTHER}

\* device-type codes of an attach notification: one mapped by
\* PERIPHERAL_TYPES and one that is not
DevTypes == {"DEV_MOTOR", "DEV_UNKNOWN"}

\* PERIPHERAL_TYPES: device-type code -> peripheral class; a code that is not
\* a key gets the generic Peripheral class
PERIPHERAL_TYPES ==
    [d \in {"DEV_MOTOR", "DEV_MOTOR_EXTERNAL_TACHO", "DEV_MOTOR_INTERNAL_TACHO",
            "DEV_VISION_SENSOR", "DEV_RGB_LIGHT", "DEV_TILT_EXTERNAL",
            "DEV_TILT_INTERNAL", "DEV_CURRENT", "DEV_VOLTAGE"} |->
        CASE d = "DEV_MOTOR" -> "Motor"
          [] d \in {"DEV_MOTOR_EXTERNAL_TACHO", "DEV_MOTOR_INTERNAL_TACHO"} -> "EncodedMotor"
          [] d = "DEV_VISION_SENSOR" -> "VisionSensor"
          [] d = "DEV_RGB_LIGHT" -> "LEDRGB"
          [] d \in {"DEV_TILT_EXTERNAL", "DEV_TILT_INTERNAL"} -> "TiltSensor"
          [] d = "DEV_CURRENT" -> "Current"
          [] d = "DEV_VOLTAGE" -> "Voltage"]

(* ----------------------------- messages -------------------------------- *)
\* Upstream (decoded) messages all have the same fields; a field a message
\* class does not have is "-" / 0.
UpMsg(t, port, event, dev, prop, code) ==
    [type |-> t, port |-> port, event |-> event, dev |-> dev, prop |-> prop,
     code |-> code, vports |-> <<>>]

NoMsg == UpMsg("None", 0, "-", "-", 0, "-")
MsgHubAttachedIO(port, event, dev) == UpMsg("MsgHubAttachedIO", port, event, dev, 0, "-")
\* a virtual attach: bytes 2 and 3 of the payload name the two ports
MsgHubAttachedIOVirtual(port, dev, vports) ==
    [MsgHubAttachedIO(port, EVENT_ATTACHED_VIRTUAL, dev) EXCEPT !.vports = vports]
MsgPortValueSingle(port) == UpMsg("MsgPortValueSingle", port, "-", "-", 0, "-")
MsgPortValueCombined(port) == UpMsg("MsgPortValueCombined", port, "-", "-", 0, "-")
MsgGenericError(err) == UpMsg("MsgGenericError", 0, "-", "-", 0, err)
MsgHubAction(action) == UpMsg("MsgHubAction", 0, "-", "-", 0, action)
MsgHubPropertiesReply(prop) == UpMsg("MsgHubProperties", 0, "-", "-", prop, "-")
MsgHubAlertReply(alert) == UpMsg("MsgHubAlert", 0, "-", "-", alert, "-")
\* a frame whose type byte is the TYPE of no class in UPSTREAM_MSGS
UnknownFrame == UpMsg("Unknown", 0, "-", "-", 0, "-")

\* the notifications the Connection delivers while callers send: replies,
\* errors, hub actions, an attach, a detach, an attach message with another
\* event code and a frame of unknown type
Notifications ==
    {MsgHubAttachedIO(PORT_A, EVENT_ATTACHED, "DEV_MOTOR")}
    \cup {MsgHubAttachedIO(PORT_A, EVENT_DETACHED, "-")}
    \cup {MsgHubAttachedIO(PORT_A, EVENT_OTHER, "DEV_MOTOR")}
    \cup {MsgGenericError("ERR_5")}
    \cup {MsgHubAction(a) : a \in Actions}
    \cup {MsgHubPropertiesReply(p) : p \in Props}
    \cup {UnknownFrame}

\* the notifications of devices: attach, virtual attach (two payloads),
\* another event code, detach, sensor data
AttachNotifications ==
    {MsgHubAttachedIO(p, EVENT_ATTACHED, dv) : p \in Ports, dv \in DevTypes}
    \cup {MsgHubAttachedIOVirtual(PORT_A, "DEV_MOTOR", vp) :
                vp \in {<<PORT_A, PORT_B>>, <<PORT_C, PORT_D>>}}
    \cup {MsgHubAttachedIO(PORT_A, EVENT_OTHER, "DEV_MOTOR")}
    \cup {MsgHubAttachedIO(p, EVENT_DETACHED, "-") : p \in Ports}
    \cup {MsgPortValueSingle(PORT_A), MsgPortValueCombined(PORT_A)}

\* Downstream messages: a property request (needs_reply), a command that
\* expects no reply, and the hub actions of Hub.switch_off and
\* Hub.disconnect (line 162-166), which the hub answers with the upstream
\* actions "shutdown" and "disconnect".
DownMsg(t, prop, nr) == [type |-> t, prop |-> prop, needs_reply |-> nr]
NoReq == DownMsg("None", 0, FALSE)
Requests ==
    {DownMsg("MsgHubProperties", ADVERTISE_NAME, TRUE)}
    \cup {DownMsg("MsgPortOutput", 0, FALSE)}
    \cup {DownMsg("MsgHubAction", a, TRUE) : a \in {SWITCH_OFF, DISCONNECT}}

\* msg.bytes(): the encoded frame, here the fields the encoding carries
Bytes(msg) == <<msg.type, msg.prop>>

\* DownstreamMsg.is_reply(msg): a generic-error answers every request; a
\* property reply answers the request for the same property, an alert reply
\* the request for the same alert, the upstream hub action "disconnect" /
\* "shutdown" the request to disconnect / to switch off; no request is
\* answered by another message
IsReply(req, msg) ==
    IF msg.type = "MsgGenericError"
    THEN TRUE
    ELSE IF req.type = "MsgHubAction"
    THEN /\ msg.type = "MsgHubAction"
         /\ \/ req.prop = DISCONNECT /\ msg.code = UPSTREAM_DISCONNECT
            \/ req.prop = SWITCH_OFF /\ msg.code = UPSTREAM_SHUTDOWN
    ELSE /\ req.type \in {"MsgHubProperties", "MsgHubAlert"}
         /\ msg.type = req.type
         /\ msg.prop = req.prop

\* MsgGenericError.message(): the text of the device-reported error
ErrorMessage(msg) == <<"Command caused error", msg.code>>

\* A peripheral object: its identity, its class and its virtual_ports
\* attribute.  Absent marks a port that is not a key of Hub.peripherals.
Absent == [id |-> 0, cls |-> "None", virtual_ports |-> <<>>]
PeripheralObj(id, cls) == [id |-> id, cls |-> cls, virtual_ports |-> <<>>]
\* the key set of Hub.peripherals
Keys(perph) == {p \in DOMAIN perph : perph[p] # Absent}

\* The shorthand fields of MoveHub (line 205-215); Absent is None.
NoAccessors ==
    [led |-> Absent, current |-> Absent, voltage |-> Absent,
     motor_A |-> Absent, motor_B |-> Absent, motor_AB |-> Absent,
     vision_sensor |-> Absent, tilt_sensor |-> Absent,
     motor_external |-> Absent, port_C |-> Absent, port_D |-> Absent]

(* results of send() *)
NoResult == [kind |-> "none", value |-> NoMsg, text |-> <<>>]
Returned(m) == [kind |-> "return", value |-> m, text |-> <<>>]
Raised(exc, text) == [kind |-> exc, value |-> NoMsg, text |-> text]

(* ------------------------------ state ---------------------------------- *)
VARIABLES
    pc,            \* position of each caller thread inside send()
    cur,           \* the msg argument of the send() each caller is running
    outcome,       \* how the last send() of each caller ended
    nsends,        \* send() calls started so far
    began_pending, \* history: whether a request was pending when the send()
                   \* of each caller that waits for the lock was called
    sync_request,  \* Hub._sync_request (NoReq is None)
    sync_replies,  \* Hub._sync_replies, a queue of capacity 1
    sync_lock,     \* holder of Hub._sync_lock, or Free
    peripherals,   \* Hub.peripherals: port -> peripheral object
    nextId,        \* identity of the next Peripheral object constructed
    written,       \* the calls of connection.write, in order: <<handle, bytes>>
    conn_alive,    \* connection.is_alive()
    disconnects,   \* number of calls of connection.disconnect()
    dpc,           \* position of the delivery thread inside _notify
    dmsg,          \* the decoded message _notify is processing
    didx,          \* index into _msg_handlers of the handler last called
    invoked,       \* handlers called so far for the current notification
    derr,          \* the exception that ended the last _notify, or "none"
    nnotif,        \* notifications handed to _notify so far
    lastEv,        \* history: the last attach/detach event notified per port
    req_owner,     \* history: the caller whose send() recorded _sync_request
    reply_owner,   \* history: for each queued reply, the caller whose request
                   \* it was correlated with
    deleted,       \* Hub.__del__ has run
    acc,           \* the shorthand fields of a MoveHub
    mpc,           \* position of the thread that runs MoveHub.__init__
                   \* ("none": the Hub is a plain Hub)
    wait_num,      \* polls of _wait_for_devices that found a device missing
    ridx,          \* the request of _report_status being sent (1..4)
    fidx,          \* shorthand fields MoveHub.__init__ has assigned so far
    msg_handlers   \* Hub._msg_handlers: <<class, callback>> in append order

hubVars == <<sync_request, sync_replies, sync_lock, req_owner, reply_owner>>
callerVars == <<pc, cur, outcome, nsends, began_pending>>
connVars == <<written, conn_alive, disconnects>>
periphVars == <<peripherals, nextId>>
notifyVars == <<dpc, dmsg, didx, invoked, derr, nnotif, lastEv>>
notifyVars_but_dpc == <<dmsg, didx, invoked, derr, nnotif, lastEv>>
moveVars == <<acc, mpc, wait_num, ridx, fidx>>
vars == <<pc, cur, outcome, nsends, began_pending, sync_request, sync_replies, sync_lock,
          peripherals, nextId, written, conn_alive, disconnects,
          dpc, dmsg, didx, invoked, derr, nnotif, lastEv, req_owner,
          reply_owner, deleted, acc, mpc, wait_num, ridx, fidx, msg_handlers>>

\* line 55-56: Hub.add_message_handler appends to the table
AddMessageHandler(handlers, classname, callback) ==
    Append(handlers, <<classname, callback>>)

\* line 39-43: the handlers Hub.__init__ registers, in this order
BuiltinHandlers ==
    AddMessageHandler(
     AddMessageHandler(
      AddMessageHandler(
       AddMessageHandler(
        AddMessageHandler(<<>>,
            "MsgHubAttachedIO", "_handle_device_change"),
           "MsgPortValueSingle", "_handle_sensor_data"),
          "MsgPortValueCombined", "_handle_sensor_data"),
         "MsgGenericError", "_handle_error"),
        "MsgHubAction", "_handle_action")

\* the message classes clients register callbacks for
ClientClasses == {"MsgGenericError", "MsgHubAttachedIO"}

\* Hub.__init__ (line 32-49): the fields of the Hub after construction
HubInit ==
    /\ pc = [c \in Callers |-> "idle"]
    /\ cur = [c \in Callers |-> NoReq]
    /\ outcome = [c \in Callers |-> NoResult]
    /\ nsends = 0
    /\ began_pending = [c \in Callers |-> FALSE]
    /\ sync_request = NoReq
    /\ sync_replies = <<>>
    /\ sync_lock = Free
    /\ peripherals = [p \in MovePorts |-> Absent]
    /\ nextId = 1
    /\ written = <<>>
    /\ conn_alive = TRUE
    /\ disconnects = 0
    /\ dpc = "idle"
    /\ dmsg = NoMsg
    /\ didx = 0
    /\ invoked = <<>>
    /\ derr = "none"
    /\ nnotif = 0
    /\ lastEv = [p \in MovePorts |-> "none"]
    /\ req_owner = "none"
    /\ reply_owner = <<>>
    /\ deleted = FALSE
    /\ msg_handlers = BuiltinHandlers

\* the state after the construction of a plain Hub
Init ==
    /\ HubInit
    /\ acc = NoAccessors
    /\ mpc = "none"
    /\ wait_num = 0
    /\ ridx = 0
    /\ fidx = 0

\* line 55-56: a client thread calls add_message_handler; no lock is taken
ClientAddsHandler(classname) ==
    /\ ~deleted
    /\ Len(msg_handlers) < Len(BuiltinHandlers) + MaxHandlers
    /\ msg_handlers' = AddMessageHandler(msg_handlers, classname, "client_handler")
    /\ UNCHANGED <<callerVars, hubVars, connVars, periphVars, notifyVars,
                   deleted, moveVars>>

(* --------------------------- Hub.send ---------------------------------- *)
\* line 63-65: a caller enters send(msg); msg.bytes() is computed and the
\* branch on msg.needs_reply is taken
SendBegin(c, msg) ==
    /\ ~deleted
    /\ pc[c] = "idle"
    /\ nsends < MaxSends
    /\ nsends' = nsends + 1
    /\ cur' = [cur EXCEPT ![c] = msg]
    /\ outcome' = [outcome EXCEPT ![c] = NoResult]
    /\ pc' = [pc EXCEPT ![c] = IF msg.needs_reply THEN "lock" ELSE "write_async"]
    /\ began_pending' = [began_pending EXCEPT ![c] =
                            msg.needs_reply /\ sync_request # NoReq]
    /\ UNCHANGED <<hubVars, connVars, periphVars, notifyVars, deleted, moveVars, msg_handlers>>

\* line 66: with self._sync_lock (blocks while another thread holds it)
SendAcquire(c) ==
    /\ pc[c] = "lock"
    /\ sync_lock = Free
    /\ sync_lock' = c
    /\ pc' = [pc EXCEPT ![c] = "check"]
    /\ UNCHANGED <<cur, outcome, nsends, began_pending, sync_request, sync_replies,
                   req_owner, reply_owner, connVars, periphVars, notifyVars, deleted, moveVars, msg_handlers>>

\* SendCheck without the assertion of line 67: the request is recorded over
\* a pending one
SendCheckNoAssert(c) ==
    /\ pc[c] = "check"
    /\ sync_lock = c
    /\ sync_lock' = Free
    /\ sync_request' = cur[c]
    /\ req_owner' = c
    /\ pc' = [pc EXCEPT ![c] = "write"]
    /\ began_pending' = [began_pending EXCEPT ![c] = FALSE]
    /\ UNCHANGED <<outcome, cur, nsends, sync_replies, reply_owner, connVars,
                   periphVars, notifyVars, deleted, moveVars, msg_handlers>>

\* line 67-69: the assertion and the recording of the request, then the
\* lock is released; a failed assertion leaves the with block and send()
SendCheck(c) ==
    /\ pc[c] = "check"
    /\ sync_lock = c
    /\ sync_lock' = Free
    /\ IF sync_request # NoReq
       THEN /\ outcome' = [outcome EXCEPT ![c] = Raised("AssertionError", <<>>)]
            /\ pc' = [pc EXCEPT ![c] = "idle"]
            /\ cur' = [cur EXCEPT ![c] = NoReq]
            /\ UNCHANGED <<sync_request, req_owner>>
       ELSE /\ sync_request' = cur[c]
            /\ req_owner' = c
            /\ pc' = [pc EXCEPT ![c] = "write"]
            /\ UNCHANGED <<outcome, cur>>
    /\ began_pending' = [began_pending EXCEPT ![c] = FALSE]
    /\ UNCHANGED <<nsends, sync_replies, reply_owner, connVars, periphVars,
                   notifyVars, deleted, moveVars, msg_handlers>>

\* line 71: connection.write(HUB_HARDWARE_HANDLE, msgbytes) of a
\* synchronous request
SendWrite(c) ==
    /\ pc[c] = "write"
    /\ written' = Append(written, <<HUB_HARDWARE_HANDLE, Bytes(cur[c])>>)
    /\ pc' = [pc EXCEPT ![c] = "get"]
    /\ UNCHANGED <<cur, outcome, nsends, began_pending, hubVars, conn_alive, disconnects,
                   periphVars, notifyVars, deleted, moveVars, msg_handlers>>

\* line 71: connection.write raises (the Connection is no longer alive);
\* the exception leaves send(), nothing after line 71 runs
SendWriteFails(c) ==
    /\ pc[c] = "write"
    /\ ~conn_alive
    /\ outcome' = [outcome EXCEPT ![c] = Raised("ConnectionError", <<>>)]
    /\ pc' = [pc EXCEPT ![c] = "idle"]
    /\ cur' = [cur EXCEPT ![c] = NoReq]
    /\ UNCHANGED <<nsends, began_pending, hubVars, connVars, periphVars, notifyVars, deleted, moveVars, msg_handlers>>

\* line 72-76: self._sync_replies.get() blocks while the queue is empty;
\* a MsgGenericError is raised as RuntimeError(resp.message())
SendGet(c) ==
    /\ pc[c] = "get"
    /\ Len(sync_replies) > 0
    /\ LET resp == Head(sync_replies) IN
        outcome' = [outcome EXCEPT ![c] =
                        IF resp.type = "MsgGenericError"
                        THEN Raised("RuntimeError", ErrorMessage(resp))
                        ELSE Returned(resp)]
    /\ sync_replies' = Tail(sync_replies)
    /\ reply_owner' = Tail(reply_owner)
    /\ pc' = [pc EXCEPT ![c] = "idle"]
    /\ cur' = [cur EXCEPT ![c] = NoReq]
    /\ UNCHANGED <<nsends, began_pending, sync_request, sync_lock, req_owner, connVars,
                   periphVars, notifyVars, deleted, moveVars, msg_handlers>>

\* SendAsync waiting for a reply like the synchronous branch does
SendAsyncWaits(c) ==
    /\ pc[c] = "write_async"
    /\ Len(sync_replies) > 0
    /\ written' = Append(written, <<HUB_HARDWARE_HANDLE, Bytes(cur[c])>>)
    /\ outcome' = [outcome EXCEPT ![c] = Returned(NoMsg)]
    /\ sync_replies' = Tail(sync_replies)
    /\ reply_owner' = Tail(reply_owner)
    /\ pc' = [pc EXCEPT ![c] = "idle"]
    /\ cur' = [cur EXCEPT ![c] = NoReq]
    /\ UNCHANGED <<nsends, began_pending, sync_request, sync_lock, req_owner, conn_alive,
                   disconnects, periphVars, notifyVars, deleted, moveVars, msg_handlers>>

\* line 77-79: a message without needs_reply is written and send() returns
\* None
SendAsync(c) ==
    /\ pc[c] = "write_async"
    /\ written' = Append(written, <<HUB_HARDWARE_HANDLE, Bytes(cur[c])>>)
    /\ outcome' = [outcome EXCEPT ![c] = Returned(NoMsg)]
    /\ pc' = [pc EXCEPT ![c] = "idle"]
    /\ cur' = [cur EXCEPT ![c] = NoReq]
    /\ UNCHANGED <<nsends, began_pending, hubVars, conn_alive, disconnects, periphVars,
                   notifyVars, deleted, moveVars, msg_handlers>>

\* line 78: connection.write raises (the Connection is no longer alive), as
\* at line 71; the exception leaves send(), line 79 does not run
SendAsyncFails(c) ==
    /\ pc[c] = "write_async"
    /\ ~conn_alive
    /\ outcome' = [outcome EXCEPT ![c] = Raised("ConnectionError", <<>>)]
    /\ pc' = [pc EXCEPT ![c] = "idle"]
    /\ cur' = [cur EXCEPT ![c] = NoReq]
    /\ UNCHANGED <<nsends, began_pending, hubVars, connVars, periphVars,
                   notifyVars, deleted, moveVars, msg_handlers>>

\* _get_upstream_msg without its assertion: a frame of unknown type is
\* passed on as a message
GetUpstreamMsgUnchecked(data) == data

(* --------------------------- Hub._notify ------------------------------- *)
\* Hub._get_upstream_msg: the class of UPSTREAM_MSGS whose TYPE is the type
\* byte of the frame decodes it; "assert msg" fails when there is none
GetUpstreamMsg(data) == IF data.type = "Unknown" THEN NoMsg ELSE data

\* the event a notification stands for in the attach/detach history of its
\* port
EventKind(m) ==
    IF m.type # "MsgHubAttachedIO" THEN "none"
    ELSE IF m.event = EVENT_DETACHED THEN "detach"
    ELSE IF m.event \in {EVENT_ATTACHED, EVENT_ATTACHED_VIRTUAL} THEN "attach"
    ELSE "none"

\* line 81-84: the Connection hands a frame to _notify, which decodes it;
\* a frame of unknown type fails the assertion of _get_upstream_msg and
\* _notify ends there
NotifyReceive(data) ==
    /\ ~deleted
    /\ dpc = "idle"
    /\ nnotif' = nnotif + 1
    /\ UNCHANGED <<invoked, didx>>
    /\ LET msg == GetUpstreamMsg(data) IN
        IF msg = NoMsg
        THEN /\ derr' = "AssertionError(assert msg)"
             /\ dmsg' = NoMsg
             /\ dpc' = "idle"
             /\ UNCHANGED lastEv
        ELSE /\ derr' = "none"
             /\ dmsg' = msg
             /\ dpc' = "lock"
             /\ lastEv' = IF EventKind(msg) = "none" THEN lastEv
                          ELSE [lastEv EXCEPT ![msg.port] = EventKind(msg)]
    /\ UNCHANGED <<callerVars, hubVars, connVars, periphVars, deleted, moveVars, msg_handlers>>

\* _notify for the notifications delivered to a plain Hub
NotifyBegin(data) ==
    /\ nnotif < MaxNotifs
    \* an attach constructs a Peripheral: identities are bounded
    /\ EventKind(data) = "attach" => nextId <= MaxObjs
    /\ NotifyReceive(data)

\* line 86: with self._sync_lock
NotifyAcquire ==
    /\ dpc = "lock"
    /\ sync_lock = Free
    /\ sync_lock' = Delivery
    /\ dpc' = "correlate"
    /\ UNCHANGED <<callerVars, sync_request, sync_replies, req_owner, reply_owner,
                   connVars, periphVars, notifyVars_but_dpc, deleted, moveVars, msg_handlers>>

\* line 87-90: the test for a pending request that the message answers;
\* put() blocks while the queue is full, with the lock held.  Without such
\* a request the with-block ends and the lock is released.
NotifyCorrelate ==
    /\ dpc = "correlate"
    /\ sync_lock = Delivery
    /\ IF sync_request # NoReq /\ IsReply(sync_request, dmsg)
       THEN /\ Len(sync_replies) < SYNC_REPLIES_MAXSIZE
            /\ sync_replies' = Append(sync_replies, dmsg)
            /\ reply_owner' = Append(reply_owner, req_owner)
            /\ dpc' = "clear"
            /\ UNCHANGED sync_lock
       ELSE /\ sync_lock' = Free
            /\ dpc' = "dispatch"
            /\ UNCHANGED <<sync_replies, reply_owner>>
    /\ UNCHANGED <<callerVars, sync_request, req_owner, connVars, periphVars,
                   notifyVars_but_dpc, deleted, moveVars, msg_handlers>>

\* line 91: self._sync_request = None, after put() has returned
NotifyClear ==
    /\ dpc = "clear"
    /\ sync_lock = Delivery
    /\ sync_request' = NoReq
    /\ req_owner' = "none"
    /\ dpc' = "release"
    /\ UNCHANGED <<callerVars, sync_lock, sync_replies, reply_owner, connVars,
                   periphVars, notifyVars_but_dpc, deleted, moveVars, msg_handlers>>

\* the end of the with-block of line 86-91: the lock is released
NotifyRelease ==
    /\ dpc = "release"
    /\ sync_lock = Delivery
    /\ sync_lock' = Free
    /\ dpc' = "dispatch"
    /\ UNCHANGED <<callerVars, sync_request, sync_replies, req_owner, reply_owner,
                   connVars, periphVars, notifyVars_but_dpc, deleted, moveVars, msg_handlers>>

\* line 93-94: the handlers after position i whose class the message is an
\* instance of
MatchingAfter(i, msg) ==
    {j \in (i + 1)..Len(msg_handlers) : msg_handlers[j][1] = msg.type}

\* the attach branch of _handle_device_change (line 133-151)
AttachBranch(msg) ==
    IF msg.event \notin {EVENT_ATTACHED, EVENT_ATTACHED_VIRTUAL}
    THEN /\ derr' = "AssertionError"
         /\ dpc' = "idle"
         /\ UNCHANGED <<periphVars>>
    ELSE LET cls == IF msg.dev \in DOMAIN PERIPHERAL_TYPES
                    THEN PERIPHERAL_TYPES[msg.dev] ELSE "Peripheral"
             obj == PeripheralObj(nextId, cls)
         IN /\ peripherals' = [peripherals EXCEPT ![msg.port] =
                   IF msg.event = EVENT_ATTACHED_VIRTUAL
                   THEN [obj EXCEPT !.virtual_ports = msg.vports]
                   ELSE obj]
            /\ nextId' = nextId + 1
            /\ UNCHANGED <<derr, dpc>>

\* _handle_device_change with a detach that tolerates an absent port
\* (pop(port, None))
HandleDeviceChangeLenient(msg) ==
    IF msg.event = EVENT_DETACHED
    THEN /\ peripherals' = [peripherals EXCEPT ![msg.port] = Absent]
         /\ UNCHANGED <<nextId, derr, dpc>>
    ELSE AttachBranch(msg)

\* _handle_device_change that only logs a device type it has no class for
HandleDeviceChangeKnownOnly(msg) ==
    IF msg.event = EVENT_DETACHED
    THEN IF msg.port \notin Keys(peripherals)
         THEN /\ derr' = "KeyError"
              /\ dpc' = "idle"
              /\ UNCHANGED <<periphVars>>
         ELSE /\ peripherals' = [peripherals EXCEPT ![msg.port] = Absent]
              /\ UNCHANGED <<nextId, derr, dpc>>
    ELSE IF msg.event \in {EVENT_ATTACHED, EVENT_ATTACHED_VIRTUAL}
            /\ msg.dev \notin DOMAIN PERIPHERAL_TYPES
         THEN UNCHANGED <<periphVars, derr, dpc>>
         ELSE AttachBranch(msg)

\* line 127-151: Hub._handle_device_change(msg)
HandleDeviceChange(msg) ==
    IF msg.event = EVENT_DETACHED
    THEN IF msg.port \notin Keys(peripherals)
         THEN \* self.peripherals[msg.port] raises KeyError
              /\ derr' = "KeyError"
              /\ dpc' = "idle"
              /\ UNCHANGED <<periphVars>>
         ELSE /\ peripherals' = [peripherals EXCEPT ![msg.port] = Absent]
              /\ UNCHANGED <<nextId, derr, dpc>>
    ELSE AttachBranch(msg)

\* line 116-125: Hub._handle_action(msg)
HandleAction(msg) ==
    IF msg.code \in {UPSTREAM_DISCONNECT, UPSTREAM_SHUTDOWN}
    THEN /\ disconnects' = disconnects + 1
         /\ conn_alive' = FALSE
    ELSE UNCHANGED <<disconnects, conn_alive>>

\* line 252-270: the elif chain over the well-known ports
BindFixedPort(a, port, obj) ==
    CASE port = PORT_A -> [a EXCEPT !.motor_A = obj]
      [] port = PORT_B -> [a EXCEPT !.motor_B = obj]
      [] port = PORT_AB -> [a EXCEPT !.motor_AB = obj]
      [] port = PORT_C -> [a EXCEPT !.port_C = obj]
      [] port = PORT_D -> [a EXCEPT !.port_D = obj]
      [] port = PORT_LED -> [a EXCEPT !.led = obj]
      [] port = PORT_TILT_SENSOR -> [a EXCEPT !.tilt_sensor = obj]
      [] port = PORT_CURRENT -> [a EXCEPT !.current = obj]
      [] port = PORT_VOLTAGE -> [a EXCEPT !.voltage = obj]
      [] OTHER -> a

\* line 272-275: the binding by the type of the peripheral
BindByType(a, port, obj) ==
    IF obj.cls = "VisionSensor"
    THEN [a EXCEPT !.vision_sensor = obj]
    ELSE IF obj.cls = "EncodedMotor" /\ port \notin {PORT_A, PORT_B, PORT_AB}
         THEN [a EXCEPT !.motor_external = obj]
         ELSE a

\* MoveHub._handle_device_change that binds the well-known ports only
MoveHubHandleDeviceChangeFixedOnly(msg) ==
    /\ HandleDeviceChange(msg)
    /\ IF dpc' = "idle" \/ msg.event = EVENT_DETACHED
       THEN UNCHANGED acc
       ELSE acc' = BindFixedPort(acc, msg.port, peripherals'[msg.port])

\* line 249-275: MoveHub._handle_device_change(msg): the handler of Hub, and
\* unless that raised or the event is a detach, the bindings
MoveHubHandleDeviceChange(msg) ==
    /\ HandleDeviceChange(msg)
    /\ IF dpc' = "idle" \/ msg.event = EVENT_DETACHED
       THEN UNCHANGED acc
       ELSE acc' = BindByType(
                     BindFixedPort(acc, msg.port, peripherals'[msg.port]),
                     msg.port, peripherals'[msg.port])

\* line 93-96: the next matching handler of the table is called; without
\* one the loop and _notify end.  _handle_error continues in the steps
\* below, the other handlers run here.  An exception of a handler ends
\* _notify; the locals of _notify are gone when it ends.  self is a MoveHub
\* (move) or a plain Hub: self._handle_device_change is the method of the
\* class of self.
Dispatch(move) ==
    /\ dpc = "dispatch"
    /\ LET next == MatchingAfter(didx, dmsg) IN
        IF next = {}
        THEN /\ dpc' = "idle"
             /\ UNCHANGED <<derr, periphVars, disconnects, conn_alive, acc>>
        ELSE LET j == CHOOSE k \in next : \A l \in next : k <= l
                 h == msg_handlers[j][2]
             IN CASE h = "_handle_device_change" ->
                         /\ IF move
                            THEN MoveHubHandleDeviceChange(dmsg)
                            ELSE HandleDeviceChange(dmsg) /\ UNCHANGED acc
                         /\ UNCHANGED <<disconnects, conn_alive>>
                  [] h = "_handle_sensor_data" ->
                         \* line 153-160: the data goes to the Peripheral's own
                         \* queue (or is dropped with a warning); no Hub state
                         UNCHANGED <<dpc, derr, periphVars, disconnects, conn_alive, acc>>
                  [] h = "_handle_error" ->
                         /\ dpc' = "err_lock"
                         /\ UNCHANGED <<derr, periphVars, disconnects, conn_alive, acc>>
                  [] h = "_handle_action" ->
                         /\ HandleAction(dmsg)
                         /\ UNCHANGED <<dpc, derr, periphVars, acc>>
                  [] h \in {"client_handler", "_props_msg"} ->
                         \* a callback of the client, or the one of the
                         \* Button of a MoveHub: no Hub state
                         UNCHANGED <<dpc, derr, periphVars, disconnects, conn_alive, acc>>
    /\ IF dpc' = "idle"
       THEN /\ dmsg' = NoMsg
            /\ didx' = 0
            /\ invoked' = <<>>
       ELSE LET j == CHOOSE k \in MatchingAfter(didx, dmsg) :
                        \A l \in MatchingAfter(didx, dmsg) : k <= l
            IN /\ didx' = j
               /\ invoked' = Append(invoked, msg_handlers[j][2])
               /\ UNCHANGED dmsg
    /\ UNCHANGED <<callerVars, hubVars, written, nnotif, lastEv, deleted,
                   mpc, wait_num, ridx, fidx, msg_handlers>>

\* the handler loop of _notify of a plain Hub
NotifyDispatch == Dispatch(FALSE)

\* the handler loop of _notify of a MoveHub
MoveNotifyDispatch == Dispatch(TRUE)

\* line 111: _handle_error, with self._sync_lock
ErrorAcquire ==
    /\ dpc = "err_lock"
    /\ sync_lock = Free
    /\ sync_lock' = Delivery
    /\ dpc' = "err_check"
    /\ UNCHANGED <<callerVars, sync_request, sync_replies, req_owner, reply_owner,
                   connVars, periphVars, notifyVars_but_dpc, deleted, moveVars, msg_handlers>>

\* _handle_error that hands the error over whether or not a request is
\* pending
ErrorCheckAlways ==
    /\ dpc = "err_check"
    /\ sync_lock = Delivery
    /\ sync_request' = NoReq
    /\ dpc' = "err_put"
    /\ UNCHANGED <<callerVars, sync_lock, sync_replies, req_owner, reply_owner,
                   connVars, periphVars, notifyVars_but_dpc, deleted, moveVars, msg_handlers>>

\* line 112-113: _handle_error clears a pending request
ErrorCheck ==
    /\ dpc = "err_check"
    /\ sync_lock = Delivery
    /\ IF sync_request # NoReq
       THEN /\ sync_request' = NoReq
            /\ dpc' = "err_put"
            /\ UNCHANGED sync_lock
       ELSE /\ sync_lock' = Free
            /\ dpc' = "dispatch"
            /\ UNCHANGED sync_request
    \* req_owner keeps the owner of the cleared request until ErrorPut
    /\ UNCHANGED <<callerVars, sync_replies, req_owner, reply_owner, connVars,
                   periphVars, notifyVars_but_dpc, deleted, moveVars, msg_handlers>>

\* line 114: _handle_error puts the error on the queue, blocking while it
\* is full, with the lock held
ErrorPut ==
    /\ dpc = "err_put"
    /\ sync_lock = Delivery
    /\ Len(sync_replies) < SYNC_REPLIES_MAXSIZE
    /\ sync_replies' = Append(sync_replies, dmsg)
    /\ reply_owner' = Append(reply_owner, req_owner)
    /\ req_owner' = "none"
    /\ dpc' = "err_release"
    /\ UNCHANGED <<callerVars, sync_request, sync_lock, connVars, periphVars,
                   notifyVars_but_dpc, deleted, moveVars, msg_handlers>>

\* the end of the with-block of line 111-114: the lock is released and
\* _handle_error returns to the handler loop
ErrorRelease ==
    /\ dpc = "err_release"
    /\ sync_lock = Delivery
    /\ sync_lock' = Free
    /\ dpc' = "dispatch"
    /\ UNCHANGED <<callerVars, sync_request, sync_replies, req_owner, reply_owner,
                   connVars, periphVars, notifyVars_but_dpc, deleted, moveVars, msg_handlers>>

(* --------------------------- Hub.__del__ ------------------------------- *)
\* line 51-53: the Hub is destroyed once no thread runs one of its methods
HubDel ==
    /\ ~deleted
    /\ \A c \in Callers : pc[c] = "idle"
    /\ dpc = "idle"
    /\ deleted' = TRUE
    /\ IF conn_alive
       THEN /\ disconnects' = disconnects + 1
            /\ conn_alive' = FALSE
       ELSE UNCHANGED <<disconnects, conn_alive>>
    /\ UNCHANGED <<callerVars, hubVars, written, periphVars, notifyVars, moveVars, msg_handlers>>

(* ------------------------- specification ------------------------------- *)
\* the steps of send() on a Connection whose write does not raise
ReliableCallerStep(c) ==
    \/ \E msg \in Requests : SendBegin(c, msg)
    \/ SendAcquire(c)
    \/ SendCheck(c)
    \/ SendWrite(c)
    \/ SendGet(c)
    \/ SendAsync(c)

\* the steps of send(); on a Connection that is no longer alive the write
\* may raise
CallerStep(c) ==
    \/ ReliableCallerStep(c)
    \/ SendWriteFails(c)
    \/ SendAsyncFails(c)

DeliveryStep ==
    \/ NotifyAcquire
    \/ NotifyCorrelate
    \/ NotifyClear
    \/ NotifyRelease
    \/ NotifyDispatch
    \/ ErrorAcquire
    \/ ErrorCheck
    \/ ErrorPut
    \/ ErrorRelease

Next ==
    \/ \E c \in Callers : CallerStep(c)
    \/ \E data \in Notifications : NotifyBegin(data)
    \/ DeliveryStep
    \/ HubDel

\* callers and the delivery thread on a Hub with the built-in handlers
Spec == Init /\ [][Next]_vars

ReliableNext ==
    \/ \E c \in Callers : ReliableCallerStep(c)
    \/ \E data \in Notifications : NotifyBegin(data)
    \/ DeliveryStep
    \/ HubDel

\* the same on a Connection whose write(handle, bytes) never raises
ReliableSpec == Init /\ [][ReliableNext]_vars

\* the thread of the client that sends and registers handlers
Client == "c1"

HandlerNext ==
    \/ CallerStep(Client)
    \/ \E data \in Notifications : NotifyBegin(data)
    \/ DeliveryStep
    \/ \E classname \in ClientClasses : ClientAddsHandler(classname)

\* a client that registers handlers at any time, also while it waits in
\* send() and while _notify runs its handler loop
HandlerSpec == Init /\ [][HandlerNext]_vars

\* _notify for a device notification replayed on a plain Hub
AttachNotifyBegin(data) ==
    /\ nnotif < MaxAttachNotifs
    /\ EventKind(data) = "attach" => nextId <= MaxObjs
    /\ NotifyReceive(data)

AttachNext ==
    \/ \E data \in AttachNotifications : AttachNotifyBegin(data)
    \/ NotifyAcquire
    \/ NotifyCorrelate
    \/ NotifyDispatch

\* device notifications on a plain Hub
AttachSpec == Init /\ [][AttachNext]_vars

(* ------------------------ MoveHub.__init__ ----------------------------- *)
\* the thread that constructs the MoveHub
Constructor == "c1"

\* line 222-223: the default get_dev_set of _wait_for_devices
DevSet(a) ==
    <<a.motor_A, a.motor_B, a.motor_AB, a.led, a.tilt_sensor, a.current,
      a.voltage>>

\* all(devices): None is false, a Peripheral object is true
All(devices) == \A i \in 1..Len(devices) : devices[i] # Absent

\* line 235-243: the requests of _report_status, in order
ReportRequests ==
    << DownMsg("MsgHubProperties", ADVERTISE_NAME, TRUE),
       DownMsg("MsgHubProperties", PRIMARY_MAC, TRUE),
       DownMsg("MsgHubProperties", VOLTAGE_PERC, TRUE),
       DownMsg("MsgHubAlert", LOW_VOLTAGE, TRUE) >>

\* the class _report_status asserts its k-th reply to be an instance of
\* (line 240, 244), "-" where it asserts nothing
ReportAsserts == <<"-", "-", "MsgHubProperties", "MsgHubAlert">>

\* line 199-201: super().__init__ has returned: the Hub is constructed and
\* its notifications are enabled (line 49); the Button is not constructed
\* and the shorthand fields are not assigned yet
ConstructInit ==
    /\ HubInit
    /\ acc = NoAccessors
    /\ mpc = "button"
    /\ wait_num = 0
    /\ ridx = 0
    /\ fidx = 0

\* the handlers of a MoveHub whose Button has registered its _props_msg for
\* the property messages
MoveHandlers ==
    AddMessageHandler(BuiltinHandlers, "MsgHubProperties", "_props_msg")

\* line 204: self.button = Button(self): the Button registers its handler
\* with hub.add_message_handler
MoveInitButton ==
    /\ mpc = "button"
    /\ msg_handlers' = AddMessageHandler(msg_handlers, "MsgHubProperties",
                                         "_props_msg")
    /\ mpc' = "fields"
    /\ UNCHANGED <<callerVars, hubVars, connVars, periphVars, notifyVars,
                   deleted, acc, wait_num, ridx, fidx>>

\* line 205-215: the shorthand fields in the order they are assigned
ShorthandFields ==
    <<"led", "current", "voltage", "motor_A", "motor_B", "motor_AB",
      "vision_sensor", "tilt_sensor", "motor_external", "port_C", "port_D">>

\* line 205-215: the next shorthand field is set to None (one assignment;
\* no lock is held, the delivery thread may run between two of them); after
\* the last one _wait_for_devices is called
MoveInitFields ==
    /\ mpc = "fields"
    /\ fidx < Len(ShorthandFields)
    /\ acc' = [acc EXCEPT ![ShorthandFields[fidx + 1]] = Absent]
    /\ fidx' = fidx + 1
    /\ mpc' = IF fidx + 1 = Len(ShorthandFields) THEN "wait" ELSE "fields"
    /\ UNCHANGED <<callerVars, hubVars, connVars, periphVars, notifyVars,
                   deleted, wait_num, ridx, msg_handlers>>

\* _wait_for_devices that gives up with an exception at the ceiling
WaitForDevicesOrFail ==
    /\ mpc = "wait"
    /\ IF wait_num < WAIT_ATTEMPTS
       THEN IF All(DevSet(acc))
            THEN /\ mpc' = "report"
                 /\ ridx' = 1
                 /\ UNCHANGED wait_num
            ELSE /\ wait_num' = wait_num + 1
                 /\ UNCHANGED <<mpc, ridx>>
       ELSE /\ mpc' = "failed"
            /\ UNCHANGED <<wait_num, ridx>>
    /\ UNCHANGED <<callerVars, hubVars, connVars, periphVars, notifyVars,
                   deleted, acc, fidx, msg_handlers>>

\* line 220-231: _wait_for_devices: one poll of the loop (return when all
\* devices are present, else sleep), or after the last poll the warning and
\* the return; line 217-218: _report_status is next
WaitForDevices ==
    /\ mpc = "wait"
    /\ IF wait_num < WAIT_ATTEMPTS
       THEN IF All(DevSet(acc))
            THEN /\ mpc' = "report"
                 /\ ridx' = 1
                 /\ UNCHANGED wait_num
            ELSE /\ wait_num' = wait_num + 1
                 /\ UNCHANGED <<mpc, ridx>>
       ELSE /\ mpc' = "report"
            /\ ridx' = 1
            /\ UNCHANGED wait_num
    /\ UNCHANGED <<callerVars, hubVars, connVars, periphVars, notifyVars,
                   deleted, acc, fidx, msg_handlers>>

\* line 235-243: _report_status calls self.send for its next request
ReportSend ==
    /\ mpc = "report"
    /\ pc[Constructor] = "idle"
    /\ mpc' = "report_wait"
    /\ nsends' = nsends + 1
    /\ cur' = [cur EXCEPT ![Constructor] = ReportRequests[ridx]]
    /\ outcome' = [outcome EXCEPT ![Constructor] = NoResult]
    /\ pc' = [pc EXCEPT ![Constructor] = "lock"]
    /\ began_pending' = [began_pending EXCEPT ![Constructor] = sync_request # NoReq]
    /\ UNCHANGED <<hubVars, connVars, periphVars, notifyVars, deleted, acc,
                   wait_num, ridx, fidx, msg_handlers>>

\* line 235-246: send() has ended: an exception of send() and a failed
\* isinstance assertion leave the constructor; after the fourth reply
\* _report_status and the constructor return
ReportResume ==
    /\ mpc = "report_wait"
    /\ pc[Constructor] = "idle"
    /\ IF outcome[Constructor].kind # "return"
       THEN mpc' = "failed" /\ UNCHANGED ridx
       ELSE IF ReportAsserts[ridx] \notin {"-", outcome[Constructor].value.type}
            THEN mpc' = "failed" /\ UNCHANGED ridx
            ELSE IF ridx < Len(ReportRequests)
                 THEN mpc' = "report" /\ ridx' = ridx + 1
                 ELSE mpc' = "done" /\ UNCHANGED ridx
    /\ UNCHANGED <<callerVars, hubVars, connVars, periphVars, notifyVars,
                   deleted, acc, wait_num, fidx, msg_handlers>>

\* the built-in devices of a MoveHub, in the order the hub announces them,
\* and the device type each one announces
BuiltinPorts ==
    <<PORT_A, PORT_B, PORT_AB, PORT_LED, PORT_TILT_SENSOR, PORT_CURRENT,
      PORT_VOLTAGE>>
BuiltinDev(p) ==
    CASE p \in {PORT_A, PORT_B, PORT_AB} -> "DEV_MOTOR_INTERNAL_TACHO"
      [] p = PORT_LED -> "DEV_RGB_LIGHT"
      [] p = PORT_TILT_SENSOR -> "DEV_TILT_INTERNAL"
      [] p = PORT_CURRENT -> "DEV_CURRENT"
      [] p = PORT_VOLTAGE -> "DEV_VOLTAGE"

\* the message that answers a request
ReplyTo(req) == UpMsg(req.type, 0, "-", "-", req.prop, "-")

\* The notifications the Connection may deliver while the MoveHub is
\* constructed: the attach of the next built-in device not announced yet, a
\* detach of port A once it was attached, the reply for the pending
\* request, a generic-error (while a request is pending, and without one
\* among the first MaxEarlyErrors notifications), and the disconnect of the
\* hub.
ConstructNotifications ==
    {IF BuiltinPorts[i] = PORT_AB
     THEN MsgHubAttachedIOVirtual(PORT_AB, BuiltinDev(PORT_AB), <<PORT_A, PORT_B>>)
     ELSE MsgHubAttachedIO(BuiltinPorts[i], EVENT_ATTACHED,
                           BuiltinDev(BuiltinPorts[i])) :
        i \in {k \in 1..Len(BuiltinPorts) :
                 /\ lastEv[BuiltinPorts[k]] = "none"
                 /\ \A l \in 1..(k - 1) : lastEv[BuiltinPorts[l]] # "none"}}
    \cup (IF lastEv[PORT_A] = "attach"
          THEN {MsgHubAttachedIO(PORT_A, EVENT_DETACHED, "-")} ELSE {})
    \cup (IF sync_request # NoReq THEN {ReplyTo(sync_request)} ELSE {})
    \cup (IF sync_request # NoReq \/ nnotif < MaxEarlyErrors
          THEN {MsgGenericError("ERR_5")} ELSE {})
    \cup (IF conn_alive THEN {MsgHubAction(UPSTREAM_DISCONNECT)} ELSE {})

\* _notify for a notification delivered while the MoveHub is constructed
ConstructNotifyBegin(data) == NotifyReceive(data)

ConstructNext ==
    \/ MoveInitButton
    \/ MoveInitFields
    \/ WaitForDevices
    \/ ReportSend
    \/ ReportResume
    \/ SendAcquire(Constructor)
    \/ SendCheck(Constructor)
    \/ SendWrite(Constructor)
    \/ SendWriteFails(Constructor)
    \/ SendGet(Constructor)
    \/ \E data \in ConstructNotifications : ConstructNotifyBegin(data)
    \/ NotifyAcquire
    \/ NotifyCorrelate
    \/ NotifyClear
    \/ NotifyRelease
    \/ MoveNotifyDispatch
    \/ ErrorAcquire
    \/ ErrorCheck
    \/ ErrorPut
    \/ ErrorRelease

\* the construction of a MoveHub
ConstructSpec == ConstructInit /\ [][ConstructNext]_vars

\* the same, with the constructing thread scheduled again and again while
\* it is in _wait_for_devices (time.sleep returns)
ConstructFairSpec == ConstructSpec /\ WF_vars(WaitForDevices)

(* ---------------------- a constructed MoveHub -------------------------- *)
\* The state in which MoveHub.__init__ returns when no device was announced
\* during the construction: _wait_for_devices has run to its ceiling and the
\* four requests of _report_status were written and answered.  The handler
\* table is the one MoveInitButton leaves, or the built-in one when the
\* Button of the installation registers no handler.
MoveInit ==
    /\ pc = [c \in Callers |-> "idle"]
    /\ cur = [c \in Callers |-> NoReq]
    /\ outcome = [c \in Callers |->
                    IF c = Constructor
                    THEN Returned(ReplyTo(ReportRequests[Len(ReportRequests)]))
                    ELSE NoResult]
    /\ nsends = Len(ReportRequests)
    /\ began_pending = [c \in Callers |-> FALSE]
    /\ sync_request = NoReq
    /\ sync_replies = <<>>
    /\ sync_lock = Free
    /\ peripherals = [p \in MovePorts |-> Absent]
    /\ nextId = 1
    /\ written = [i \in 1..Len(ReportRequests) |->
                    <<HUB_HARDWARE_HANDLE, Bytes(ReportRequests[i])>>]
    /\ conn_alive = TRUE
    /\ disconnects = 0
    /\ dpc = "idle"
    /\ dmsg = NoMsg
    /\ didx = 0
    /\ invoked = <<>>
    /\ derr = "none"
    /\ nnotif = Len(ReportRequests)
    /\ lastEv = [p \in MovePorts |-> "none"]
    /\ req_owner = "none"
    /\ reply_owner = <<>>
    /\ deleted = FALSE
    /\ acc = NoAccessors
    /\ mpc = "done"
    /\ wait_num = WAIT_ATTEMPTS
    /\ ridx = Len(ReportRequests)
    /\ fidx = Len(ShorthandFields)
    /\ msg_handlers \in {BuiltinHandlers, MoveHandlers}

\* the attach and detach notifications of a MoveHub: a motor with encoder, a
\* vision sensor or a plain motor at any port, and the detach of any port
MoveNotifications ==
    {MsgHubAttachedIO(p, EVENT_ATTACHED, dv) :
        p \in MovePorts,
        dv \in {"DEV_MOTOR_EXTERNAL_TACHO", "DEV_VISION_SENSOR", "DEV_MOTOR"}}
    \cup {MsgHubAttachedIO(p, EVENT_DETACHED, "-") : p \in MovePorts}

\* _notify for the notifications delivered to the constructed MoveHub
MoveNotifyBegin(data) ==
    /\ nnotif < Len(ReportRequests) + MaxNotifs
    /\ EventKind(data) = "attach" => nextId <= MaxObjs
    /\ NotifyReceive(data)

MoveNext ==
    \/ \E data \in MoveNotifications : MoveNotifyBegin(data)
    \/ NotifyAcquire
    \/ NotifyCorrelate
    \/ MoveNotifyDispatch

\* attach and detach notifications on a constructed MoveHub
MoveSpec == MoveInit /\ [][MoveNext]_vars

(* ------------------------------ claims --------------------------------- *)
\* a step of caller c / of the delivery thread
CallerMoved(c) == pc'[c] # pc[c]
DeliveryMoved == <<dpc, didx, nnotif>>' # <<dpc, didx, nnotif>>

\* C1 as stated: the one slot _sync_request holds None or one request that
\* needs a reply, a recorded request is never replaced by another one, and
\* a send() that was called while a PendingRequest existed ends at its
\* assertion with an AssertionError: connection.write is not called for it
\* and the PendingRequest stays as it was.
C1_StartedWhilePendingFails ==
    /\ [](sync_request = NoReq \/ (sync_request \in Requests /\ sync_request.needs_reply))
    /\ [][/\ (sync_request' # sync_request /\ sync_request' # NoReq)
                => sync_request = NoReq
          /\ \A c \in Callers :
                (pc[c] = "check" /\ began_pending[c] /\ CallerMoved(c))
                => /\ outcome'[c] = Raised("AssertionError", <<>>)
                   /\ pc'[c] = "idle"
                   /\ written' = written
                   /\ sync_request' = sync_request
                   /\ req_owner' = req_owner]_vars

\* C1 amended: the one slot _sync_request holds None or one request that
\* needs a reply, a recorded request is never replaced by another one, and
\* a send() that finds a PendingRequest at its assertion (line 67, under the
\* lock) ends there with an AssertionError: connection.write is not called
\* for it and the PendingRequest stays as it was.
C1_OnePendingRequest ==
    /\ [](sync_request = NoReq \/ (sync_request \in Requests /\ sync_request.needs_reply))
    /\ [][/\ (sync_request' # sync_request /\ sync_request' # NoReq)
                => sync_request = NoReq
          /\ \A c \in Callers :
                (pc[c] = "check" /\ sync_request # NoReq /\ CallerMoved(c))
                => /\ outcome'[c] = Raised("AssertionError", <<>>)
                   /\ pc'[c] = "idle"
                   /\ written' = written
                   /\ sync_request' = sync_request
                   /\ req_owner' = req_owner]_vars

\* C1 witness: a send() ended with the assertion failure while the request
\* of the other caller is still pending and is the only one written
C1_Witness ==
    \E c, o \in Callers :
        /\ c # o
        /\ outcome[c].kind = "AssertionError"
        /\ pc[o] = "get"
        /\ sync_request = cur[o]
        /\ sync_request # NoReq
        /\ written = << <<HUB_HARDWARE_HANDLE, Bytes(cur[o])>> >>

\* C3: once every delivered notification has been processed, the key set of
\* Hub.peripherals is the set of ports whose last attach/detach notification
\* was an attach (whether or not a detach hit an absent port).
C3_PeripheralSetIsAttachedPorts ==
    dpc = "idle" => Keys(peripherals) = {p \in MovePorts : lastEv[p] = "attach"}

\* C3 witness: a port was attached and then detached, and is absent
C3_Witness ==
    /\ dpc = "idle"
    /\ nextId = 2
    /\ lastEv = [p \in MovePorts |-> IF p = PORT_A THEN "detach" ELSE "none"]
    /\ derr = "none"
    /\ Keys(peripherals) = {}

\* a step of _handle_device_change for a detach of port p
IsDetachStep ==
    /\ dpc = "dispatch"
    /\ dmsg.type = "MsgHubAttachedIO"
    /\ dmsg.event = EVENT_DETACHED
    /\ didx = 0
    /\ DeliveryMoved

\* C8: a detached notification for a port that is not in Hub.peripherals
\* raises KeyError out of the handler and of _notify, and Hub.peripherals is
\* what it was.
C8_DetachAbsentFails ==
    [][(IsDetachStep /\ dmsg.port \notin Keys(peripherals))
        => /\ derr' = "KeyError"
           /\ dpc' = "idle"
           /\ peripherals' = peripherals]_vars

\* C8 witness: a detach of an absent port while the other port is attached
\* ended _notify with KeyError
C8_Witness ==
    /\ derr = "KeyError"
    /\ dpc = "idle"
    /\ lastEv[PORT_A] = "detach"
    /\ Keys(peripherals) = {PORT_B}

\* C9 as stated: a send() of a message without needs_reply goes straight to
\* the write, is never blocked there, appends its frame to the Connection's
\* writes and returns None; none of its steps changes _sync_request, the
\* rendezvous queue or the lock.
C9_AsyncSendFrame ==
    /\ [](\A c \in Callers : pc[c] = "write_async" => ENABLED SendAsync(c))
    /\ [][\A c \in Callers :
            /\ (pc[c] = "idle" /\ CallerMoved(c) /\ ~cur'[c].needs_reply)
                => /\ pc'[c] = "write_async"
                   /\ UNCHANGED <<sync_request, sync_replies, sync_lock>>
            /\ (pc[c] = "write_async" /\ CallerMoved(c))
                => /\ written' = Append(written, <<HUB_HARDWARE_HANDLE, Bytes(cur[c])>>)
                   /\ outcome'[c] = Returned(NoMsg)
                   /\ pc'[c] = "idle"
                   /\ UNCHANGED <<sync_request, sync_replies, sync_lock>>]_vars

\* C9 witness: the request of one caller was written and is pending since (no
\* notification yet), and the other caller's send() without needs_reply wrote
\* its frame after it and returned None
C9_Witness ==
    \E c, o \in Callers :
        /\ c # o
        /\ nnotif = 0
        /\ pc[o] = "get"
        /\ sync_request = cur[o]
        /\ sync_request # NoReq
        /\ pc[c] = "idle"
        /\ outcome[c] = Returned(NoMsg)
        /\ Len(written) = 2
        /\ written[1] = <<HUB_HARDWARE_HANDLE, Bytes(cur[o])>>
        /\ written[2] = <<HUB_HARDWARE_HANDLE, Bytes(DownMsg("MsgPortOutput", 0, FALSE))>>

\* a step that puts the message being processed on the rendezvous queue
PutMsg ==
    /\ Len(sync_replies') = Len(sync_replies) + 1
    /\ sync_replies'[Len(sync_replies')] = dmsg
Pending == sync_request # NoReq

\* C2 as stated: the message of a notification is put on the rendezvous
\* queue exactly when a PendingRequest exists and its is_reply holds for the
\* message (at line 87-88 of _notify and at line 112 of _handle_error), and
\* a message on the queue is taken by the send() whose request it was put
\* for.
C2_HandedIffIsReply ==
    [][/\ (dpc = "correlate" /\ DeliveryMoved)
            => (PutMsg <=> (Pending /\ IsReply(sync_request, dmsg)))
       /\ (dpc = "err_check" /\ DeliveryMoved)
            => (dpc' = "err_put" <=> (Pending /\ IsReply(sync_request, dmsg)))
       /\ (dpc = "err_put" /\ DeliveryMoved) => PutMsg
       /\ (Len(sync_replies') > Len(sync_replies))
            => (PutMsg /\ dpc \in {"correlate", "err_put"})
       /\ \A c \in Callers :
            (Len(sync_replies') < Len(sync_replies))
                => (CallerMoved(c) <=> Head(reply_owner) = c)]_vars

\* C4 as stated: a generic-error processed while a PendingRequest exists is
\* put on the queue and the request is cleared (by _notify at line 90-91,
\* by _handle_error at line 113-114), with the send() that recorded the
\* request still waiting; _handle_error is called for every generic-error;
\* the error is fetched by that send(), which ends with RuntimeError
\* carrying the error's message.
C4_ErrorFailsPendingSend ==
    [][/\ (dpc = "correlate" /\ DeliveryMoved /\ Pending
                /\ dmsg.type = "MsgGenericError")
            => /\ PutMsg
               /\ dpc' = "clear"
               /\ pc[req_owner] \in {"write", "get"}
               /\ cur[req_owner] = sync_request
       /\ (dpc = "clear" /\ DeliveryMoved) => sync_request' = NoReq
       /\ (dpc = "err_check" /\ DeliveryMoved /\ Pending)
            => /\ sync_request' = NoReq
               /\ dpc' = "err_put"
               /\ invoked[Len(invoked)] = "_handle_error"
               /\ pc[req_owner] \in {"write", "get"}
               /\ cur[req_owner] = sync_request
       /\ (dpc = "dispatch" /\ dpc' = "idle" /\ dmsg.type = "MsgGenericError")
            => (Len(invoked) > 0 /\ invoked[1] = "_handle_error")
       /\ \A c \in Callers :
            (pc[c] = "get" /\ CallerMoved(c)
                /\ Head(sync_replies).type = "MsgGenericError")
            => /\ Head(reply_owner) = c
               /\ outcome'[c] = Raised("RuntimeError",
                                       ErrorMessage(Head(sync_replies)))]_vars

\* the names of the handlers of the table that match a message, in order
MatchingHandlers(msg) ==
    LET sel == SelectSeq(msg_handlers, LAMBDA h : h[1] = msg.type)
    IN [i \in 1..Len(sel) |-> sel[i][2]]

\* C5 as stated: a notification that is neither a reply to the
\* PendingRequest nor a generic-error is dispatched to its matching handlers
\* and changes neither the PendingRequest nor the queue; a send() returns
\* (normally) only with a message that is a reply to its own request.
C5_OnlyMatchingUnblocks ==
    [][/\ (dpc \in {"correlate", "dispatch"} /\ DeliveryMoved /\ Pending
            /\ ~IsReply(sync_request, dmsg) /\ dmsg.type # "MsgGenericError")
            => /\ UNCHANGED <<sync_request, sync_replies>>
               /\ (dpc' = "idle" /\ derr' = "none")
                    => invoked = MatchingHandlers(dmsg)
       /\ \A c \in Callers :
            (pc[c] = "get" /\ CallerMoved(c)
                /\ Head(sync_replies).type # "MsgGenericError")
            => /\ IsReply(cur[c], Head(sync_replies))
               /\ outcome'[c] = Returned(Head(sync_replies))]_vars

\* C6 as stated: connection.disconnect() is called at most once
C6_DisconnectAtMostOnce == disconnects <= 1

\* a step of _handle_device_change for an attach
IsAttachStep ==
    /\ dpc = "dispatch"
    /\ dmsg.type = "MsgHubAttachedIO"
    /\ dmsg.event \in {EVENT_ATTACHED, EVENT_ATTACHED_VIRTUAL}
    /\ didx = 0
    /\ DeliveryMoved

\* C7 as stated: an attach for a port already in Hub.peripherals is flagged
\* (the handler raises) and the peripheral stored at the port stays.
C7_AttachPresentFlagged ==
    [][(IsAttachStep /\ dmsg.port \in Keys(peripherals))
        => /\ derr' # "none"
           /\ peripherals'[dmsg.port] = peripherals[dmsg.port]]_vars

\* C10 as stated (safety part): a send() whose request is still the
\* PendingRequest stays blocked until a message was put on the queue for
\* it, and the PendingRequest is cleared only by the delivery thread
\* processing a reply to it (line 91, after the put of line 90) or a
\* generic-error (line 113); a disconnect of the Connection changes
\* neither.
C10_BlockedUntilCorrelatedReply ==
    [][/\ \A c \in Callers :
            (pc[c] = "get" /\ Pending /\ req_owner = c
                /\ \A i \in 1..Len(reply_owner) : reply_owner[i] # c)
            => pc'[c] = "get"
       /\ (Pending /\ sync_request' = NoReq)
            => \/ dpc = "clear" /\ IsReply(sync_request, dmsg)
               \/ dpc = "err_check" /\ dmsg.type = "MsgGenericError"
       /\ (disconnects' # disconnects)
            => UNCHANGED <<sync_request, sync_replies, pc>>]_vars

\* C11: a frame whose type byte has no upstream message class ends _notify
\* with the AssertionError of _get_upstream_msg in the step that receives
\* it: the PendingRequest, the queue, Hub.peripherals and the lock are
\* unchanged and no handler is called; only decoded messages of a known
\* class ever reach correlation and dispatch.
C11_UnknownFrameFails ==
    /\ [](dpc # "idle" => (dmsg \in Notifications /\ dmsg.type # "Unknown"))
    /\ [][(nnotif' # nnotif /\ dpc' = "idle")
            => /\ derr' = "AssertionError(assert msg)"
               /\ invoked' = <<>>
               /\ UNCHANGED <<sync_request, sync_replies, sync_lock,
                              peripherals>>]_vars

\* C11 witness: an unknown frame was received while a request was pending
\* and a peripheral was attached
C11_Witness ==
    /\ derr = "AssertionError(assert msg)"
    /\ dpc = "idle"
    /\ Pending
    /\ Keys(peripherals) # {}

\* C12: when the test of _notify (line 87) or of _handle_error (line 112)
\* finds no PendingRequest for a generic-error, the step puts nothing on
\* the queue, leaves the request absent, raises nothing, releases the lock
\* and goes on with the dispatch; every generic-error on the queue was put
\* there for a request that was pending when the error was handled.
C12_StrayErrorOnlyLogged ==
    /\ [][(dpc \in {"correlate", "err_check"} /\ DeliveryMoved /\ ~Pending
                /\ dmsg.type = "MsgGenericError")
            => /\ UNCHANGED <<sync_request, sync_replies>>
               /\ derr' = "none"
               /\ dpc' = "dispatch"
               /\ sync_lock' = Free]_vars
    /\ [](\A i \in 1..Len(sync_replies) :
            sync_replies[i].type = "MsgGenericError"
                => reply_owner[i] \in Callers)

\* C12 witness: _handle_error has run for an error that arrived before any
\* send() was started
C12_Witness ==
    /\ nsends = 0
    /\ dpc = "dispatch"
    /\ dmsg.type = "MsgGenericError"
    /\ invoked = <<"_handle_error">>
    /\ sync_replies = <<>>
    /\ ~Pending
    /\ sync_lock = Free

\* C15 as stated: while a notification is dispatched the handlers called
\* so far are a prefix of its matching handlers in registration order, and
\* when _notify ends all of them were called (the last one may be the one
\* whose exception ends _notify), whether or not the message was put on the
\* queue as a reply; no handler is called before the with-block of the
\* correlation has ended, and a notification is received only once the one
\* before has finished.
C15_DispatchAllInOrder ==
    /\ [](dpc \in {"dispatch", "err_lock", "err_check", "err_put", "err_release"}
            => /\ Len(invoked) <= Len(MatchingHandlers(dmsg))
               /\ \A i \in 1..Len(invoked) :
                    invoked[i] = MatchingHandlers(dmsg)[i])
    /\ [](dpc \in {"lock", "correlate", "clear", "release"} => invoked = <<>>)
    /\ [][(dpc = "dispatch" /\ dpc' = "idle")
            => Len(invoked) + (IF derr' = "none" THEN 0 ELSE 1)
                    = Len(MatchingHandlers(dmsg))]_vars
    /\ [][(nnotif' # nnotif)
            => (dpc = "idle" /\ invoked = <<>> /\ didx = 0)]_vars

\* C16 as stated: every step that changes _sync_request or Hub.peripherals
\* is taken by a thread that holds _sync_lock.
C16_MutationsUnderLock ==
    [][(sync_request' # sync_request \/ peripherals' # peripherals)
            => \/ (sync_lock = Delivery /\ DeliveryMoved)
               \/ \E c \in Callers : sync_lock = c /\ CallerMoved(c)]_vars

\* C17 as stated: the message a send() takes from the queue was put there
\* for the request of that same caller, and it is a reply to the caller's
\* request or a generic-error.
C17_OwnReplyOnly ==
    [][\A c \in Callers :
        (pc[c] = "get" /\ CallerMoved(c))
            => /\ Head(reply_owner) = c
               /\ \/ Head(sync_replies).type = "MsgGenericError"
                  \/ IsReply(cur[c], Head(sync_replies))]_vars

\* C20 as stated: a caller that is not inside send() has left neither a
\* PendingRequest it recorded (but for the moment in which the delivery
\* thread, holding the lock, has put its reply and is about to clear the
\* request at line 91) nor a queued message put there for its request.
C20_EndedSendLeavesNothing ==
    \A c \in Callers :
        pc[c] = "idle"
            => /\ (Pending /\ req_owner = c) => dpc = "clear"
               /\ \A i \in 1..Len(reply_owner) : reply_owner[i] # c

\* the accessor MoveHub names for a well-known port
AccessorAt(a, port) ==
    CASE port = PORT_A -> a.motor_A
      [] port = PORT_B -> a.motor_B
      [] port = PORT_AB -> a.motor_AB
      [] port = PORT_C -> a.port_C
      [] port = PORT_D -> a.port_D
      [] port = PORT_LED -> a.led
      [] port = PORT_TILT_SENSOR -> a.tilt_sensor
      [] port = PORT_CURRENT -> a.current
      [] port = PORT_VOLTAGE -> a.voltage

\* the values of all accessors
AccessorValues(a) == {a[f] : f \in DOMAIN a}

\* C13: _wait_for_devices polls at most WAIT_ATTEMPTS times, polls again
\* only while a device is missing, and always ends; when it ends, at the
\* ceiling or before, the constructor goes on with _report_status and no
\* accessor is changed.
C13_WaitTerminates ==
    /\ [](wait_num \in 0..WAIT_ATTEMPTS)
    /\ [][(wait_num' # wait_num)
            => /\ wait_num' = wait_num + 1
               /\ mpc = "wait" /\ mpc' = "wait"
               /\ ~All(DevSet(acc))]_vars
    /\ [][(mpc = "wait" /\ mpc' # "wait")
            => /\ mpc' = "report"
               /\ acc' = acc
               /\ (wait_num = WAIT_ATTEMPTS \/ All(DevSet(acc)))]_vars
    /\ ((mpc = "wait") ~> (mpc = "report"))

\* C13 witness: the constructor has returned after the ceiling was reached
\* with the voltage sensor missing and motor A present
C13_Witness ==
    /\ mpc = "done"
    /\ wait_num = WAIT_ATTEMPTS
    /\ acc.voltage = Absent
    /\ acc.motor_A # Absent

\* C14: a step of _handle_device_change that stores a peripheral at a
\* well-known port leaves that port's accessor referring to the stored
\* peripheral; a VisionSensor stored at any port is vision_sensor, an
\* EncodedMotor stored at a port other than A, B and AB is motor_external.
C14_AttachBindsAccessors ==
    [][(IsAttachStep /\ derr' = "none")
        => LET port == dmsg.port
               obj == peripherals'[port]
           IN /\ obj # Absent
              /\ port \in MovePorts => AccessorAt(acc', port) = obj
              /\ obj.cls = "VisionSensor" => acc'.vision_sensor = obj
              /\ (obj.cls = "EncodedMotor"
                    /\ port \notin {PORT_A, PORT_B, PORT_AB})
                   => acc'.motor_external = obj]_vars

\* C14 witness: a vision sensor at port C and an encoded motor at port D
\* are bound by port and by type
C14_Witness ==
    /\ acc.port_C.cls = "VisionSensor"
    /\ acc.vision_sensor = acc.port_C
    /\ acc.port_D.cls = "EncodedMotor"
    /\ acc.motor_external = acc.port_D

\* C18 as stated: once the MoveHub constructor has returned, the accessor
\* of every well-known port that holds a peripheral refers to that
\* peripheral.
C18_AccessorsBoundAtReturn ==
    mpc = "done"
        => \A p \in MovePorts :
              peripherals[p] # Absent => AccessorAt(acc, p) = peripherals[p]

\* C19 as stated: between notifications every accessor that is set refers
\* to an object that is a value of Hub.peripherals.
C19_AccessorsAreAttached ==
    dpc = "idle"
        => \A o \in AccessorValues(acc) \ {Absent} :
              \E p \in MovePorts : peripherals[p] = o

====
